---- MODULE Spec2Model ----
(***************************************************************************)
(* A model of the spacectl-web server: the schema cache and the taxonomy   *)
(* builder (ServiceDiscovery), the two connection registries               *)
(* (ServiceDiscovery.clients and ClientManager.clients), the request        *)
(* handlers (ListResources, CallGRPCMethod) and the invoker (CallMethod).  *)
(*                                                                         *)
(* A name such as "spaceone.api.inventory.v1.Server" is a sequence of      *)
(* tokens, the dot being a token of its own:                               *)
(*   <<"spaceone", ".", "api", ".", "inventory", ".", "v1", ".", "Server">> *)
(* so that splitting and formatting are computed, not assumed.             *)
(***************************************************************************)
EXTENDS Integers, Sequences, FiniteSets, TLC

\* ------------------------------------------------------------------ bounds
NProcs    == 2     \* concurrent request goroutines
MaxReq    == 3     \* requests started in one run
MaxTime   == 5     \* the last instant of the clock (one unit is one minute)
MaxFaults == 1     \* injected network faults in one run
MaxExtra  == 1     \* segments after the fifth in a generated name
MaxFields == 2     \* fields of an input message
MaxParams == 2     \* entries of a parameter map
MaxWait   == 32    \* seconds a call with no deadline is followed for
MaxListed == 3     \* operation-groups a backend lists
MaxFetches == 3    \* resource fetches the web client starts

\* ------------------------------------------------------- program constants
CacheTTL              == 5
DefaultTimeout        == 30
StatusOK              == 200
StatusBadRequest      == 400
StatusNotFound        == 404
StatusInternalError   == 500

\* --------------------------------------------------------------- strings
Dot == "."

HealthFullName     == <<"grpc", Dot, "health", Dot, "v1", Dot, "Health">>
ServerInfoFullName == <<"spaceone", Dot, "api", Dot, "core", Dot, "v1", Dot, "ServerInfo">>

\* The position of the first dot of s, 0 when it holds none.
RECURSIVE FirstDot(_, _)
FirstDot(s, i) ==
    IF i > Len(s) THEN 0
    ELSE IF s[i] = Dot THEN i
    ELSE FirstDot(s, i + 1)

\* The text of a dot-free run of tokens: the empty string for no token.
SegText(t) == IF t = <<>> THEN "" ELSE t[1]

\* strings.Split(s, "."): the segments between the dots, empty ones included.
RECURSIVE Split(_)
Split(s) ==
    LET i == FirstDot(s, 1) IN
    IF i = 0 THEN << SegText(s) >>
    ELSE << SegText(SubSeq(s, 1, i - 1)) >> \o Split(SubSeq(s, i + 1, Len(s)))

\* fmt.Sprintf(constants.ServiceNamePattern, serviceName, resourceName)
ServiceNamePattern(serviceName, resourceName) ==
    <<"spaceone", Dot, "api", Dot, serviceName, Dot, "v1", Dot, resourceName>>

\* ------------------------------------------------------ taxonomy builder
\* isCompatibleService with each alias pair in one direction only.
isCompatibleServiceOneWay(discoveredServiceName, requestedServiceName) ==
    \/ requestedServiceName = "inventory_v2" /\ discoveredServiceName = "inventory"
    \/ requestedServiceName = "cost_analysis_v2" /\ discoveredServiceName = "cost_analysis"

\* ServiceDiscovery.isCompatibleService: the four directed alias mappings.
isCompatibleService(discoveredServiceName, requestedServiceName) ==
    \/ requestedServiceName = "inventory_v2" /\ discoveredServiceName = "inventory"
    \/ requestedServiceName = "inventory" /\ discoveredServiceName = "inventory_v2"
    \/ requestedServiceName = "cost_analysis_v2" /\ discoveredServiceName = "cost_analysis"
    \/ requestedServiceName = "cost_analysis" /\ discoveredServiceName = "cost_analysis_v2"

\* extractResourceName without the two reserved names.
extractResourceNameNoReserved(fullServiceName, serviceName) ==
    LET parts == Split(fullServiceName) IN
    IF Len(parts) >= 5 /\ parts[1] = "spaceone" /\ parts[2] = "api"
    THEN IF parts[3] = serviceName THEN parts[5]
         ELSE IF isCompatibleService(parts[3], serviceName) THEN parts[5]
         ELSE ""
    ELSE ""

\* extractResourceName asking for four segments and reading the fifth: the
\* index expression parts[4] panics on a name of four segments.
extractResourceNameFourSegments(fullServiceName, serviceName) ==
    IF fullServiceName = HealthFullName THEN "Health"
    ELSE IF fullServiceName = ServerInfoFullName THEN "ServerInfo"
    ELSE LET parts == Split(fullServiceName) IN
         IF Len(parts) >= 4 /\ parts[1] = "spaceone" /\ parts[2] = "api"
            /\ parts[4] = "v1" /\ parts[3] = serviceName
         THEN IF Len(parts) >= 5 THEN parts[5] ELSE "panic: index out of range"
         ELSE ""

\* ServiceDiscovery.extractResourceName
extractResourceName(fullServiceName, serviceName) ==
    IF fullServiceName = HealthFullName THEN "Health"
    ELSE IF fullServiceName = ServerInfoFullName THEN "ServerInfo"
    ELSE LET parts == Split(fullServiceName) IN
         IF Len(parts) >= 5 /\ parts[1] = "spaceone" /\ parts[2] = "api"
         THEN IF parts[3] = serviceName THEN parts[5]
              ELSE IF isCompatibleService(parts[3], serviceName) THEN parts[5]
              ELSE ""
         ELSE ""


\* ------------------------------------------------------------ environment
Procs == 1 .. NProcs

\* The service names a request may carry, and the names config.Endpoints holds.
ServiceNames == {"inventory", "ghost"}
Configured   == {"inventory"}

\* The two connection registries of the process (main.go creates one of each).
Regs == {"sd", "cm"}

FQ(svc, ver, res) == <<"spaceone", Dot, "api", Dot, svc, Dot, ver, Dot, res>>

\* What the backend behind each endpoint lists, in registry listing order.
Advertised(s) ==
    << HealthFullName, ServerInfoFullName, FQ("identity", "v1", "User"),
       FQ("inventory", "v1", "Server"), FQ("inventory_v2", "v1", "Server") >>

\* The operations of each operation-group, in declaration order.
GroupMethods(full) ==
    CASE full = HealthFullName                     -> << "Check" >>
      [] full = ServerInfoFullName                 -> << "get_version" >>
      [] full = FQ("inventory", "v1", "Server")    -> << "list", "get" >>
      [] full = FQ("inventory_v2", "v1", "Server") -> << "list" >>
      [] OTHER                                     -> << "create" >>

\* The requests the model sends: (service, resource, verb).
InvokeInputs ==
    { <<"inventory", "Server", "list">>,
      <<"inventory", "Health", "Check">>, <<"inventory", "Server", "bogus">>,
      <<"inventory", "Nope", "list">>,    <<"ghost", "Server", "list">> }

\* The instants at which the clock is read: the start, and the minutes from
\* the last one before an entry stamped at the start expires to MaxTime.
Instants == {0} \cup ((CacheTTL - 1) .. MaxTime)

Range(f) == { f[x] : x \in DOMAIN f }

Put(f, k, v) == [x \in (DOMAIN f) \cup {k} |-> IF x = k THEN v ELSE f[x]]

\* ------------------------------------------------------------------ state
VARIABLES
    pc,          \* where each request goroutine is
    loc,         \* its local variables
    resp,        \* the response its last request ended with
    gsi,         \* its last GetServiceInfo call: what it found and did
    cache,       \* sd.cache: service name -> ServiceInfo (0: no entry)
    heap,        \* the ServiceInfo objects allocated so far
    failLog,     \* per ServiceInfo, the groups whose ResolveService failed in its pass
    clients,     \* per registry: name -> connection (0: no entry)
    refClients,  \* per registry: name -> reflection client (0: no entry)
    conns,       \* the connections created so far: [name, reg]
    succ,        \* per registry and name, the handle of the first successful call
    cleared,     \* per service: ClearCache returned and no GetServiceInfo began since
    now,         \* the clock
    nReq,        \* requests started
    faults,      \* network faults injected
    crashed,     \* the runtime ended the process (concurrent map access)
    mu,          \* sd.mu between two steps: the goroutine holding it (0: free)
    resolved,    \* per ServiceInfo, the groups ResolveService was called on, in order
    fn           \* a call of extractResourceName on its own: input and result

srvVars == << pc, loc, resp, gsi, cache, heap, failLog, clients, refClients,
              conns, succ, cleared, now, nReq, faults, crashed, mu, resolved >>
vars == << srvVars, mu, resolved, fn >>

NoLoc == [ op |-> "none", svc |-> "", res |-> "", verb |-> "", caller |-> "",
           reg |-> "", conn |-> 0, ref |-> 0, info |-> 0,
           err |-> FALSE, full |-> << >>, vfail |-> "none",
           cause |-> "", rpcs |-> 0 ]

NoResp == [ kind |-> "none", code |-> 0, message |-> "", data |-> {} ]

NoGsi == [ svc |-> "", existed |-> FALSE, age |-> 0, hit |-> FALSE, queries |-> 0,
           entry |-> 0, result |-> 0, afterClear |-> FALSE, done |-> FALSE ]

NoFn == [ op |-> "none" ]

ServerInit ==
    /\ pc = [p \in Procs |-> "idle"]
    /\ loc = [p \in Procs |-> NoLoc]
    /\ resp = [p \in Procs |-> NoResp]
    /\ gsi = [p \in Procs |-> NoGsi]
    /\ cache = [s \in ServiceNames |-> 0]
    /\ heap = << >>
    /\ failLog = << >>
    /\ clients = [r \in Regs |-> [s \in ServiceNames |-> 0]]
    /\ refClients = [r \in Regs |-> [s \in ServiceNames |-> 0]]
    /\ conns = << >>
    /\ succ = [r \in Regs |-> [s \in ServiceNames |-> 0]]
    /\ cleared = [s \in ServiceNames |-> FALSE]
    /\ now = 0
    /\ nReq = 0
    /\ faults = 0
    /\ crashed = FALSE
    /\ mu = 0
    /\ resolved = << >>

Init == ServerInit /\ fn = NoFn

\* -------------------------------------------------------------- responses
Ctx    == "ctx"
NilCtx == "nil"

\* What the Recover middleware answers for a handler that panicked.
PanicResp == [ kind |-> "panic", code |-> StatusInternalError,
               message |-> "Internal Server Error", data |-> {} ]

\* response.Error: calculateDuration(c) calls c.Get, which panics on a nil context.
Error(c, code, message) ==
    IF c = NilCtx THEN PanicResp
    ELSE [ kind |-> "error", code |-> code, message |-> message, data |-> {} ]

NotFound(c, message)            == Error(c, StatusNotFound, message)
BadRequest(c, message)          == Error(c, StatusBadRequest, message)
InternalServerError(c, message) == Error(c, StatusInternalError, message)

Success(c, data) ==
    IF c = NilCtx THEN PanicResp
    ELSE [ kind |-> "success", code |-> StatusOK, message |-> "", data |-> data ]

\* The predefined APIErrors CallMethod returns, as CallGRPCMethod sends them.
ErrServiceDescriptorFailed ==
    Error(Ctx, StatusInternalError, "Failed to get service descriptor")
ErrMethodNotFound == Error(Ctx, StatusNotFound, "Method not found")
ErrRPCCallFailed  == Error(Ctx, StatusInternalError, "RPC call failed")


\* ---------------------------------------------------------------- helpers
Running(p) == ~crashed

\* A new request is taken by the first idle goroutine.
CanStart(p) ==
    /\ Running(p) /\ pc[p] = "idle" /\ nReq < MaxReq
    /\ \A q \in Procs : q < p => pc[q] # "idle"

\* What stays of a goroutine's locals once its request has ended.
Finished(l) == [ NoLoc EXCEPT !.op = l.op, !.svc = l.svc, !.res = l.res,
                              !.verb = l.verb, !.vfail = l.vfail,
                              !.cause = l.cause, !.rpcs = l.rpcs ]

\* The request of p ends with response r.
Reply(p, l, r) ==
    /\ pc' = [pc EXCEPT ![p] = "idle"]
    /\ loc' = [loc EXCEPT ![p] = Finished(l)]
    /\ resp' = [resp EXCEPT ![p] = r]

\* time.Since(cached.LastUpdate) < sd.cacheTTL, with the TTL counted as fresh.
IsFreshInclusive(info, t) == t - info.LastUpdate <= CacheTTL

\* time.Since(cached.LastUpdate) < sd.cacheTTL
IsFresh(info, t) == t - info.LastUpdate < CacheTTL

\* The ResourceInfo discoverService builds for one resolved operation-group.
ResourceInfo(resourceName, service) ==
    [ Name |-> resourceName,
      Verbs |-> GroupMethods(service),
      ServiceName |-> service,
      Methods |-> [ v \in Range(GroupMethods(service)) |-> [ Name |-> v ] ] ]

\* The operation-group CallMethod resolves for a resource outside the two
\* reserved ones.
ResolvedName(serviceName, resourceName, resource) ==
    ServiceNamePattern(serviceName, resourceName)

\* The literal operation-group of a reserved resource.
ReservedName(resourceName) ==
    IF resourceName = "Health" THEN HealthFullName ELSE ServerInfoFullName

\* ---------------------------------------------------------------- handlers
\* Handler.ListResources once GetServiceInfo returned (serviceInfo, err).
ListResources(p, l, serviceInfo, err) ==
    IF err
    THEN Reply(p, l, NotFound(Ctx, "Service not found"))
    ELSE Reply(p, l, Success(Ctx, DOMAIN serviceInfo.Resources))

\* Handler.validateRequest once GetServiceInfo returned (serviceInfo, err);
\* when it passes, CallGRPCMethod goes on to grpcManager.GetServiceCaller.
ValidateRequest(p, l, serviceInfo, err) ==
    IF err
    THEN Reply(p, [l EXCEPT !.vfail = "service"], NotFound(NilCtx, "Service not found"))
    ELSE IF l.res \notin DOMAIN serviceInfo.Resources
    THEN Reply(p, [l EXCEPT !.vfail = "resource"], NotFound(NilCtx, "Resource not found"))
    ELSE IF l.verb \notin Range(serviceInfo.Resources[l.res].Verbs)
    THEN Reply(p, [l EXCEPT !.vfail = "verb"], BadRequest(NilCtx, "Verb not supported"))
    ELSE /\ pc' = [pc EXCEPT ![p] = "gcLookup"]
         /\ loc' = [loc EXCEPT ![p] = [l EXCEPT !.reg = "cm"]]
         /\ UNCHANGED resp

\* CallMethod's checks of a reserved resource once GetServiceInfo returned.
CallMethodReserved(p, l, serviceInfo, err) ==
    IF err
    THEN Reply(p, l, ErrServiceDescriptorFailed)
    ELSE IF l.res \notin DOMAIN serviceInfo.Resources
    THEN Reply(p, l, ErrServiceDescriptorFailed)
    ELSE IF l.verb \notin Range(serviceInfo.Resources[l.res].Verbs)
    THEN Reply(p, l, ErrServiceDescriptorFailed)
    ELSE /\ pc' = [pc EXCEPT ![p] = "cmResolve"]
         /\ loc' = [loc EXCEPT ![p] = [l EXCEPT !.full = ReservedName(l.res)]]
         /\ UNCHANGED resp

\* The entry of CallMethod: a reserved resource goes through GetServiceInfo,
\* any other is resolved by name.
CallMethodBegin(p, l) ==
    /\ IF l.res \in {"Health", "ServerInfo"}
       THEN /\ pc' = [pc EXCEPT ![p] = "gsiRead"]
            /\ loc' = [loc EXCEPT ![p] = [l EXCEPT !.caller = "CallMethod"]]
       ELSE /\ pc' = [pc EXCEPT ![p] = "cmResolve"]
            /\ loc' = [loc EXCEPT ![p] =
                  [l EXCEPT !.full = ResolvedName(l.svc, l.res,
                                                  heap[l.info].Resources[l.res])]]
    /\ UNCHANGED resp

\* GetServiceInfo of p returns (id, err); its caller goes on with the result.
GsiReturn(p, l, g, id, err) ==
    LET l2          == [l EXCEPT !.info = id]
        serviceInfo == IF err THEN [ Resources |-> << >> ] ELSE heap[id]
    IN /\ gsi' = [gsi EXCEPT ![p] = [g EXCEPT !.result = id, !.done = TRUE]]
       /\ CASE l.caller = "ListResources"   -> ListResources(p, l2, serviceInfo, err)
            [] l.caller = "validateRequest" -> ValidateRequest(p, l2, serviceInfo, err)
            [] l.caller = "CallMethod"      -> CallMethodReserved(p, l2, serviceInfo, err)

\* ----------------------------------------------------------------- requests
\* GET /api/services/:service/resources arrives.
StartListResources(p, s) ==
    /\ CanStart(p)
    /\ pc' = [pc EXCEPT ![p] = "gsiRead"]
    /\ loc' = [loc EXCEPT ![p] = [NoLoc EXCEPT !.op = "list", !.svc = s,
                                               !.caller = "ListResources"]]
    /\ resp' = [resp EXCEPT ![p] = NoResp]
    /\ nReq' = nReq + 1
    /\ UNCHANGED << gsi, cache, heap, failLog, clients, refClients, conns, succ,
                    cleared, now, faults, crashed, mu, resolved, fn >>

\* POST /api/services/:service/resources/:resource/verbs/:verb arrives.
StartInvoke(p, s, r, v) ==
    /\ CanStart(p)
    /\ pc' = [pc EXCEPT ![p] = "gsiRead"]
    /\ loc' = [loc EXCEPT ![p] = [NoLoc EXCEPT !.op = "invoke", !.svc = s, !.res = r,
                                               !.verb = v, !.caller = "validateRequest"]]
    /\ resp' = [resp EXCEPT ![p] = NoResp]
    /\ nReq' = nReq + 1
    /\ UNCHANGED << gsi, cache, heap, failLog, clients, refClients, conns, succ,
                    cleared, now, faults, crashed, mu, resolved, fn >>

\* ServiceDiscovery.ClearCache: the map is replaced under the write lock.
ClearCache(p) ==
    /\ CanStart(p)
    /\ mu = 0
    /\ cache' = [s \in ServiceNames |-> 0]
    /\ cleared' = [s \in ServiceNames |-> TRUE]
    /\ loc' = [loc EXCEPT ![p] = [NoLoc EXCEPT !.op = "clear"]]
    /\ resp' = [resp EXCEPT ![p] = NoResp]
    /\ nReq' = nReq + 1
    /\ UNCHANGED << pc, gsi, heap, failLog, clients, refClients, conns, succ,
                    now, faults, crashed, mu, resolved, fn >>

\* --------------------------------------------------------- GetServiceInfo
\* The lookup under the read lock and the freshness test. The clock is read
\* here: t is the time time.Since sees, any instant from the last one observed on.
\* hold: whether the lock stays held when the entry is missing or stale.
GetServiceInfoReadBody(p, t, hold) ==
    /\ Running(p) /\ pc[p] = "gsiRead"
    /\ mu = 0
    /\ t >= now
    /\ LET s      == loc[p].svc
           cached == cache[s]
           exists == cached # 0
           hit    == exists /\ IsFresh(heap[cached], t)
           g      == [ NoGsi EXCEPT !.svc = s, !.existed = exists,
                                    !.age = IF exists THEN t - heap[cached].LastUpdate ELSE 0,
                                    !.hit = hit, !.entry = cached,
                                    !.afterClear = cleared[s] ]
       IN /\ now' = t
          /\ cleared' = [cleared EXCEPT ![s] = FALSE]
          /\ mu' = IF hold /\ ~hit THEN p ELSE 0
          /\ IF hit
             THEN GsiReturn(p, loc[p], g, cached, FALSE)
             ELSE /\ pc' = [pc EXCEPT ![p] = "gcLookup"]
                  /\ loc' = [loc EXCEPT ![p].reg = "sd"]
                  /\ gsi' = [gsi EXCEPT ![p] = g]
                  /\ UNCHANGED resp
    /\ UNCHANGED << cache, heap, failLog, clients, refClients, conns, succ,
                    nReq, faults, crashed, resolved, fn >>

\* GetServiceInfo keeping the lock while it discovers.
GetServiceInfoReadLocked(p, t) == GetServiceInfoReadBody(p, t, TRUE)

GetServiceInfoRead(p, t) == GetServiceInfoReadBody(p, t, FALSE)

\* The assignment under the write lock, and the return.
GetServiceInfoWrite(p) ==
    /\ Running(p) /\ pc[p] = "gsiWrite"
    /\ mu = 0
    /\ cache' = [cache EXCEPT ![loc[p].svc] = loc[p].info]
    /\ GsiReturn(p, loc[p], gsi[p], loc[p].info, FALSE)
    /\ UNCHANGED << heap, failLog, clients, refClients, conns, succ, cleared,
                    now, nReq, faults, crashed, mu, resolved, fn >>

\* ------------------------------------------------ getClient and GetClient
\* getClient of p returns (c, r, err), err being "" for nil: to
\* discoverService on the discovery registry, to GetServiceCaller (and so
\* CallGRPCMethod) on the invocation one.
GetClientReturn(p, c, r, err) ==
    LET l  == [loc[p] EXCEPT !.conn = c, !.ref = r, !.cause = err]
        ok == err = ""
        n  == loc[p].svc
        R == loc[p].reg
    IN /\ succ' = IF ok /\ succ[R][n] = 0 THEN [succ EXCEPT ![R][n] = c] ELSE succ
       /\ IF R = "sd"
          THEN IF ok
               THEN /\ pc' = [pc EXCEPT ![p] = "dsList"]
                    /\ loc' = [loc EXCEPT ![p] = l]
                    /\ UNCHANGED << resp, gsi >>
               ELSE GsiReturn(p, l, gsi[p], 0, TRUE)
          ELSE IF ok
               THEN /\ CallMethodBegin(p, l)
                    /\ UNCHANGED gsi
               ELSE /\ Reply(p, l, InternalServerError(Ctx, "Failed to create service caller"))
                    /\ UNCHANGED gsi

\* The map lookup and the endpoint lookup.
GetClientLookup(p) ==
    /\ Running(p) /\ pc[p] = "gcLookup"
    /\ LET n == loc[p].svc  R == loc[p].reg IN
       IF clients[R][n] # 0
       THEN GetClientReturn(p, clients[R][n], refClients[R][n], "")
       ELSE IF n \notin Configured
       THEN GetClientReturn(p, 0, 0, "endpoint not found")
       ELSE /\ pc' = [pc EXCEPT ![p] = "gcCreate"]
            /\ UNCHANGED << loc, resp, gsi, succ >>
    /\ UNCHANGED << cache, heap, failLog, clients, refClients, conns, cleared,
                    now, nReq, faults, crashed, mu, resolved, fn >>

\* grpc.NewClient and grpcreflect.NewClientAuto.
\* keep: whether a connection that could not be created is stored all the same.
GetClientCreateBody(p, keep) ==
    /\ Running(p) /\ pc[p] = "gcCreate"
    /\ \/ /\ faults < MaxFaults
          /\ faults' = faults + 1
          /\ GetClientReturn(p, 0, 0, "failed to connect")
          /\ conns' = IF keep
                      THEN Append(conns, [name |-> loc[p].svc, reg |-> loc[p].reg])
                      ELSE conns
          /\ clients' = IF keep
                        THEN [clients EXCEPT ![loc[p].reg][loc[p].svc] = Len(conns) + 1]
                        ELSE clients
       \/ /\ conns' = Append(conns, [name |-> loc[p].svc, reg |-> loc[p].reg])
          /\ pc' = [pc EXCEPT ![p] = "gcStoreConn"]
          /\ loc' = [loc EXCEPT ![p].conn = Len(conns) + 1, ![p].ref = Len(conns) + 1]
          /\ UNCHANGED << resp, gsi, succ, faults, clients >>
    /\ UNCHANGED << cache, heap, failLog, refClients, cleared,
                    now, nReq, crashed, mu, resolved, fn >>

\* getClient storing the connection it failed to create.
GetClientCreateKeepFailed(p) == GetClientCreateBody(p, TRUE)

GetClientCreate(p) == GetClientCreateBody(p, FALSE)

\* clients[serviceName] = conn
GetClientStoreConn(p) ==
    /\ Running(p) /\ pc[p] = "gcStoreConn"
    /\ clients' = [clients EXCEPT ![loc[p].reg][loc[p].svc] = loc[p].conn]
    /\ pc' = [pc EXCEPT ![p] = "gcStoreRef"]
    /\ UNCHANGED << loc, resp, gsi, cache, heap, failLog, refClients, conns, succ,
                    cleared, now, nReq, faults, crashed, mu, resolved, fn >>

\* refClients[serviceName] = refClient, and the return.
GetClientStoreRef(p) ==
    /\ Running(p) /\ pc[p] = "gcStoreRef"
    /\ refClients' = [refClients EXCEPT ![loc[p].reg][loc[p].svc] = loc[p].ref]
    /\ GetClientReturn(p, loc[p].conn, loc[p].ref, "")
    /\ UNCHANGED << cache, heap, failLog, clients, conns, cleared,
                    now, nReq, faults, crashed, mu, resolved, fn >>

\* Two goroutines inside the same unlocked map, one of them writing: the
\* runtime may end the process ("fatal error: concurrent map writes").
MapAccess(p, R) ==
    /\ pc[p] \in {"gcLookup", "gcStoreConn", "gcStoreRef"}
    /\ loc[p].reg = R
MapWrite(p, R) ==
    /\ pc[p] \in {"gcStoreConn", "gcStoreRef"}
    /\ loc[p].reg = R
Fatal ==
    /\ ~crashed
    /\ \E p \in Procs, q \in Procs, R \in Regs :
          p # q /\ MapWrite(p, R) /\ MapAccess(q, R)
    /\ crashed' = TRUE
    /\ UNCHANGED << pc, loc, resp, gsi, cache, heap, failLog, clients, refClients,
                    conns, succ, cleared, now, nReq, faults, mu, resolved, fn >>

\* -------------------------------------------------------- discoverService
\* refClient.ListServices(), then the new ServiceInfo stamped with time.Now():
\* t is the time time.Now() returns. publish: whether the new object is put
\* into the cache at once. evict: whether a failed ListServices removes the
\* entry of the service.
DsListBody(p, t, publish, evict) ==
    /\ Running(p) /\ pc[p] = "dsList"
    /\ IF loc[p].ref = 0
       THEN \* a nil reflection client: ListServices dereferences it and panics
            /\ Reply(p, loc[p], PanicResp)
            /\ UNCHANGED << gsi, heap, failLog, resolved, faults, cache, now >>
       ELSE \/ /\ faults < MaxFaults
               /\ faults' = faults + 1
               /\ GsiReturn(p, [loc[p] EXCEPT !.cause = "failed to list services"],
                             [gsi[p] EXCEPT !.queries = @ + 1], 0, TRUE)
               /\ cache' = IF evict THEN [cache EXCEPT ![loc[p].svc] = 0] ELSE cache
               /\ UNCHANGED << heap, failLog, resolved, now >>
            \/ /\ t >= now
               /\ now' = t
               /\ heap' = Append(heap, [ Name |-> loc[p].svc, Resources |-> << >>,
                                         LastUpdate |-> t ])
               /\ failLog' = Append(failLog, {})
               /\ resolved' = Append(resolved, << >>)
               /\ pc' = [pc EXCEPT ![p] = "dsLoop"]
               /\ loc' = [loc EXCEPT ![p].info = Len(heap) + 1]
               /\ gsi' = [gsi EXCEPT ![p].queries = @ + 1]
               /\ cache' = IF publish
                           THEN [cache EXCEPT ![loc[p].svc] = Len(heap) + 1]
                           ELSE cache
               /\ UNCHANGED << resp, faults >>
    /\ UNCHANGED << clients, refClients, conns, succ, cleared, nReq, crashed, mu, fn >>

\* discoverService publishing the ServiceInfo before it is built.
DsListPublishEarly(p, t) == DsListBody(p, t, TRUE, FALSE)

\* GetServiceInfo dropping the entry of a service it failed to rediscover.
DsListEvictOnError(p, t) == DsListBody(p, t, FALSE, TRUE)

DsList(p, t) == DsListBody(p, t, FALSE, FALSE)

\* The positions of the listed groups that extractResourceName keeps.
Matching(serviceName) ==
    { i \in DOMAIN Advertised(serviceName) :
        extractResourceName(Advertised(serviceName)[i], serviceName) # "" }

\* The loop appending the operations of every group of a resource name to
\* the verbs already collected under that name.
RECURSIVE BuildResourceMapMerged(_, _, _, _, _)
BuildResourceMapMerged(services, serviceName, failed, i, resourceMap) ==
    IF i > Len(services) THEN resourceMap
    ELSE LET service      == services[i]
             resourceName == extractResourceName(service, serviceName)
             fresh        == ResourceInfo(resourceName, service)
         IN IF resourceName = "" \/ i \in failed
            THEN BuildResourceMapMerged(services, serviceName, failed, i + 1, resourceMap)
            ELSE BuildResourceMapMerged(services, serviceName, failed, i + 1,
                     Put(resourceMap, resourceName,
                         IF resourceName \in DOMAIN resourceMap
                         THEN [fresh EXCEPT !.Verbs = resourceMap[resourceName].Verbs \o @]
                         ELSE fresh))

\* The loop over the listed groups from position i on: a group with no
\* resource name is passed over, one whose ResolveService fails (its position
\* is in failed) is skipped, every other one overwrites resourceMap[name].
RECURSIVE BuildResourceMap(_, _, _, _, _)
BuildResourceMap(services, serviceName, failed, i, resourceMap) ==
    IF i > Len(services) THEN resourceMap
    ELSE LET service      == services[i]
             resourceName == extractResourceName(service, serviceName)
         IN IF resourceName = "" \/ i \in failed
            THEN BuildResourceMap(services, serviceName, failed, i + 1, resourceMap)
            ELSE BuildResourceMap(services, serviceName, failed, i + 1,
                     Put(resourceMap, resourceName, ResourceInfo(resourceName, service)))

\* The groups the loop calls ResolveService on, from position i on, in order:
\* those extractResourceName gives a resource name for.
RECURSIVE ResolveCalls(_, _, _)
ResolveCalls(services, serviceName, i) ==
    IF i > Len(services) THEN << >>
    ELSE IF extractResourceName(services[i], serviceName) = ""
    THEN ResolveCalls(services, serviceName, i + 1)
    ELSE << services[i] >> \o ResolveCalls(services, serviceName, i + 1)

\* The loop, maps.Copy(serviceInfo.Resources, resourceMap), and the return.
\* failed: the groups whose ResolveService fails in this pass.
DsLoop(p) ==
    /\ Running(p) /\ pc[p] = "dsLoop"
    /\ \E failed \in SUBSET Matching(loc[p].svc) :
       /\ faults + Cardinality(failed) <= MaxFaults
       /\ faults' = faults + Cardinality(failed)
       /\ heap' = [heap EXCEPT ![loc[p].info].Resources =
                      BuildResourceMap(Advertised(loc[p].svc), loc[p].svc, failed, 1, << >>)]
       /\ failLog' = [failLog EXCEPT ![loc[p].info] =
                         { Advertised(loc[p].svc)[i] : i \in failed }]
    /\ resolved' = [resolved EXCEPT ![loc[p].info] =
                        ResolveCalls(Advertised(loc[p].svc), loc[p].svc, 1)]
    /\ pc' = [pc EXCEPT ![p] = "gsiWrite"]
    /\ UNCHANGED << loc, resp, gsi, cache, clients, refClients, conns, succ,
                    cleared, now, nReq, crashed, mu, fn >>

\* -------------------------------------------------------------- CallMethod
\* sc.refClient.ResolveService(serviceFullName) and FindMethodByName(verb).
CallMethodResolve(p) ==
    /\ Running(p) /\ pc[p] = "cmResolve"
    /\ LET l == loc[p] IN
       IF l.ref = 0
       THEN /\ Reply(p, l, PanicResp)
            /\ UNCHANGED faults
       ELSE IF l.full \notin Range(Advertised(l.svc))
       THEN /\ Reply(p, l, ErrServiceDescriptorFailed)
            /\ UNCHANGED faults
       ELSE \/ /\ faults < MaxFaults
               /\ faults' = faults + 1
               /\ Reply(p, l, ErrServiceDescriptorFailed)
            \/ /\ UNCHANGED faults
               /\ IF l.verb \notin Range(GroupMethods(l.full))
                  THEN Reply(p, l, ErrMethodNotFound)
                  ELSE /\ pc' = [pc EXCEPT ![p] = "cmInvoke"]
                       /\ UNCHANGED << loc, resp >>
    /\ UNCHANGED << gsi, cache, heap, failLog, clients, refClients, conns, succ,
                    cleared, now, nReq, crashed, mu, resolved, fn >>

\* stub.InvokeRpc and the conversion of the answer.
\* retry: whether a failed RPC is issued a second time.
CallMethodInvokeBody(p, retry) ==
    /\ Running(p) /\ pc[p] = "cmInvoke"
    /\ LET l == [loc[p] EXCEPT !.rpcs = @ + 1] IN
       \/ /\ faults < MaxFaults
          /\ faults' = faults + 1
          /\ IF retry /\ loc[p].rpcs = 0
             THEN /\ loc' = [loc EXCEPT ![p] = l]
                  /\ UNCHANGED << pc, resp >>
             ELSE Reply(p, l, ErrRPCCallFailed)
       \/ /\ UNCHANGED faults
          /\ Reply(p, l, Success(Ctx, {loc[p].full}))
    /\ UNCHANGED << gsi, cache, heap, failLog, clients, refClients, conns, succ,
                    cleared, now, nReq, crashed, mu, resolved, fn >>

\* CallMethod issuing a failed RPC once more.
CallMethodInvokeRetry(p) == CallMethodInvokeBody(p, TRUE)

CallMethodInvoke(p) == CallMethodInvokeBody(p, FALSE)

\* ------------------------------------------------------------ specifications
\* The listing workload: listings and cache clears, the clock running.
NextCache ==
    \/ \E p \in Procs, s \in ServiceNames : StartListResources(p, s)
    \/ \E p \in Procs : ClearCache(p)
    \/ \E p \in Procs, t \in Instants : GetServiceInfoRead(p, t)
    \/ \E p \in Procs : GetServiceInfoWrite(p)
    \/ \E p \in Procs : GetClientLookup(p)
    \/ \E p \in Procs : GetClientCreate(p)
    \/ \E p \in Procs : GetClientStoreConn(p)
    \/ \E p \in Procs : GetClientStoreRef(p)
    \/ \E p \in Procs, t \in Instants : DsList(p, t)
    \/ \E p \in Procs : DsLoop(p)
    \/ Fatal

SpecCache == Init /\ [][NextCache]_vars

\* The invocation workload: invocations within one instant of the clock.
NextInvoke ==
    \/ \E p \in Procs, i \in InvokeInputs : StartInvoke(p, i[1], i[2], i[3])
    \/ \E p \in Procs : GetServiceInfoRead(p, now)
    \/ \E p \in Procs : GetServiceInfoWrite(p)
    \/ \E p \in Procs : GetClientLookup(p)
    \/ \E p \in Procs : GetClientCreate(p)
    \/ \E p \in Procs : GetClientStoreConn(p)
    \/ \E p \in Procs : GetClientStoreRef(p)
    \/ \E p \in Procs : DsList(p, now)
    \/ \E p \in Procs : DsLoop(p)
    \/ \E p \in Procs : CallMethodResolve(p)
    \/ \E p \in Procs : CallMethodInvoke(p)
    \/ Fatal

SpecInvoke == Init /\ [][NextInvoke]_vars

\* extractResourceName on its own: one call on one input.
Join(segs) ==
    [ i \in 1 .. (2 * Len(segs) - 1) |-> IF i % 2 = 1 THEN segs[(i + 1) \div 2] ELSE Dot ]

\* The names the call is tried on: every non-empty prefix of a conventional
\* name followed by up to MaxExtra further segments, and the health name.
SegmentChoices ==
    { <<ns, dom, svc, ver, res>> \o [ i \in 1 .. MaxExtra |-> "Sub" ] :
        ns \in {"spaceone", "other"}, dom \in {"api", "x"},
        svc \in {"inventory", "inventory_v2", "cost_analysis", "cost_analysis_v2",
                 "core", "identity"},
        ver \in {"v1", "v2"}, res \in {"Server", "ServerInfo"} }

FullNames ==
    { Join(SubSeq(segs, 1, k)) : segs \in SegmentChoices, k \in 1 .. (5 + MaxExtra) }
        \cup { HealthFullName }

RequestedNames ==
    {"inventory", "inventory_v2", "cost_analysis", "cost_analysis_v2", "identity"}

InitExtract ==
    /\ ServerInit
    /\ fn \in { [ op |-> "input", fullName |-> f, serviceName |-> s, result |-> "" ] :
                  f \in FullNames, s \in RequestedNames }

ExtractResourceName ==
    /\ fn.op = "input"
    /\ fn' = [fn EXCEPT !.op = "done",
                        !.result = extractResourceName(fn.fullName, fn.serviceName)]
    /\ UNCHANGED srvVars

NextExtract == ExtractResourceName

SpecExtract == InitExtract /\ [][NextExtract]_vars

\* extractMethodInfo on its own: one call on the fields of one input message.
\* A field: its name, its kind, whether it is repeated, and whether its
\* declaration carries a default (only a scalar field can).
FieldNames == << "a", "b", "c", "d" >>

FieldChoices ==
    { f \in [ kind : {"string", "int32", "message"}, repeated : BOOLEAN,
              declared : BOOLEAN ] : f.kind = "message" => ~f.declared }

\* The input messages: up to MaxFields fields, the i-th named FieldNames[i].
FieldLists ==
    { [ i \in DOMAIN fs |-> [ name |-> FieldNames[i], kind |-> fs[i].kind,
                              repeated |-> fs[i].repeated,
                              declared |-> fs[i].declared ] ] :
        fs \in UNION { [1 .. k -> FieldChoices] : k \in 0 .. MaxFields } }

\* field.GetDefaultValue(): a slice for a repeated field, nil for a message
\* field, and for any other field its declared default or else the zero
\* value of its kind.
GetDefaultValue(field) ==
    IF field.repeated THEN "slice"
    ELSE IF field.kind = "message" THEN "nil"
    ELSE IF field.declared THEN "declared"
    ELSE "zero"

\* The loop of extractMethodInfo from position i on.
RECURSIVE ClassifyFields(_, _, _, _)
ClassifyFields(fields, i, requiredParams, optionalParams) ==
    IF i > Len(fields)
    THEN [ RequiredParams |-> requiredParams, OptionalParams |-> optionalParams ]
    ELSE LET field      == fields[i]
             hasDefault == GetDefaultValue(field) # "nil"
             isRepeated == field.repeated
         IN IF hasDefault \/ isRepeated
            THEN ClassifyFields(fields, i + 1, requiredParams,
                                Append(optionalParams, field.name))
            ELSE ClassifyFields(fields, i + 1, Append(requiredParams, field.name),
                                optionalParams)

extractMethodInfo(fields) == ClassifyFields(fields, 1, << >>, << >>)

InitMethodInfo ==
    /\ ServerInit
    /\ fn \in { [ op |-> "input", fields |-> fs, info |-> extractMethodInfo(<< >>) ] :
                  fs \in FieldLists }

ExtractMethodInfo ==
    /\ fn.op = "input"
    /\ fn' = [fn EXCEPT !.op = "done", !.info = extractMethodInfo(fn.fields)]
    /\ UNCHANGED srvVars

NextMethodInfo == ExtractMethodInfo

SpecMethodInfo == InitMethodInfo /\ [][NextMethodInfo]_vars

\* The parameter loop of CallMethod and the RPC, on their own. A text is a
\* sequence of characters; a value is a text, a float64 or a bool, as JSON
\* decoding yields them, or an int32 / int64 made by convertValue.
Digits == {"0", "1", "4", "7"}

DigitVal(c) == CASE c = "0" -> 0 [] c = "1" -> 1 [] c = "4" -> 4 [] c = "7" -> 7

\* The character of a digit below ten.
DigitChar(d) == CHOOSE c \in Digits : DigitVal(c) = d

\* The value of the digits of str from position i on, up to the first
\* character that is no digit, after the value acc; and how many there are.
RECURSIVE ScanDigits(_, _, _, _)
ScanDigits(str, i, acc, count) ==
    IF i > Len(str) \/ str[i] \notin Digits THEN [ value |-> acc, count |-> count ]
    ELSE ScanDigits(str, i + 1, 10 * acc + DigitVal(str[i]), count + 1)

\* fmt.Sscanf(v, "%d", &result): an optional sign and the digits that follow
\* it; what comes after the digits is left unread. err when no digit is there.
Sscanf(v) ==
    LET signed == Len(v) > 0 /\ v[1] \in {"-", "+"}
        scan   == ScanDigits(v, IF signed THEN 2 ELSE 1, 0, 0)
    IN [ err    |-> scan.count = 0,
         result |-> IF signed /\ v[1] = "-" THEN 0 - scan.value ELSE scan.value ]

Text(s) == [ type |-> "string", text |-> s ]
TrueText == << "t", "r", "u", "e" >>

\* The texts the parameters carry.
Texts ==
    { << >>, << "4" >>, << "4", "1" >>, << "-", "4" >>, << "-" >>, << "a" >>,
      << "4", "a" >>, << "a", "4" >>, << "1" >>, << "0" >>, TrueText,
      << "T", "r", "u", "e" >> }

\* A float64 is held in tenths: 47 is 4.7. int64(v) drops the fraction.
Truncate(tenths) == IF tenths >= 0 THEN tenths \div 10 ELSE 0 - ((0 - tenths) \div 10)

\* What JSON decoding yields (texts, float64 numbers, bools), and the native
\* integers a Go caller of CallMethod may pass.
ParamValues ==
    { Text(s) : s \in Texts }
        \cup { [ type |-> "float64", tenths |-> t ] : t \in {40, 47, 0 - 47} }
        \cup { [ type |-> "bool", b |-> v ] : v \in BOOLEAN }
        \cup { [ type |-> t, num |-> 4 ] : t \in {"int", "int32", "int64"} }

\* The fields of the input message of the operation, and their kinds.
InputFields ==
    [ name |-> "string", limit |-> "int32", total |-> "int64", strict |-> "bool" ]

ParamKeys == DOMAIN InputFields \cup { "bogus" }

\* The parameter maps: up to MaxParams entries.
ParamMaps ==
    UNION { [K -> ParamValues] :
              K \in { S \in SUBSET ParamKeys : Cardinality(S) <= MaxParams } }

\* Whether dynamic.Message accepts the value for a field of the kind.
Accepts(kind, value) ==
    CASE kind = "string" -> value.type = "string"
      [] kind = "int32"  -> value.type = "int32"
      [] kind = "int64"  -> value.type \in {"int", "int32", "int64"}
      [] kind = "bool"   -> value.type = "bool"

\* msg.TrySetFieldByName(fieldName, value)
TrySetFieldByName(msg, fieldName, value) ==
    IF fieldName \in DOMAIN InputFields /\ Accepts(InputFields[fieldName], value)
    THEN [ err |-> FALSE, msg |-> Put(msg, fieldName, value) ]
    ELSE [ err |-> TRUE, msg |-> msg ]

\* fmt.Sprintf("%v", value) of a value that is no text.
Sprintf(value) ==
    IF value.type = "bool" THEN (IF value.b THEN TrueText ELSE << "f", "a", "l", "s", "e" >>)
    ELSE IF value.type = "float64"
    THEN LET t == IF value.tenths < 0 THEN 0 - value.tenths ELSE value.tenths IN
         (IF value.tenths < 0 THEN << "-" >> ELSE << >>)
            \o << DigitChar(t \div 10) >>
            \o (IF t % 10 = 0 THEN << >> ELSE << ".", DigitChar(t % 10) >>)
    ELSE << DigitChar(value.num) >>

\* ServiceCaller.convertValue: never an error.
\* trues: the texts a boolean field takes for true.
convertValueBody(value, kind, trues) ==
    CASE kind = "string" ->
            IF value.type = "string" THEN value ELSE Text(Sprintf(value))
      [] kind \in {"int32", "int64"} ->
            IF value.type \in {"int", "int32", "int64"} THEN value
            ELSE IF value.type = "float64"
            THEN [ type |-> "int64", num |-> Truncate(value.tenths) ]
            ELSE IF value.type = "string" /\ ~Sscanf(value.text).err
            THEN [ type |-> kind, num |-> Sscanf(value.text).result ]
            ELSE value
      [] kind = "bool" ->
            IF value.type = "bool" THEN value
            ELSE IF value.type = "string"
            THEN [ type |-> "bool", b |-> value.text \in trues ]
            ELSE value

\* convertValue comparing without regard to case.
convertValueAnyCase(value, kind) ==
    convertValueBody(value, kind, { TrueText, << "1" >>, << "T", "r", "u", "e" >> })

convertValue(value, kind) == convertValueBody(value, kind, { TrueText, << "1" >> })

\* ServiceCaller.setMessageField
setMessageField(msg, fieldName, value) ==
    LET direct == TrySetFieldByName(msg, fieldName, value) IN
    IF ~direct.err THEN direct
    ELSE IF fieldName \notin DOMAIN InputFields THEN [ err |-> TRUE, msg |-> msg ]
    ELSE TrySetFieldByName(msg, fieldName,
                           convertValue(value, InputFields[fieldName]))

InitParams ==
    /\ ServerInit
    /\ fn \in { [ op |-> "loop", parameters |-> ps, todo |-> DOMAIN ps,
                   msg |-> << >>, failed |-> {} ] : ps \in ParamMaps }

\* One pass of the range loop: any entry not yet visited (Go fixes no order).
\* abort: whether a failed assignment ends the call.
SetParameterBody(abort) ==
    /\ fn.op = "loop"
    /\ \E key \in fn.todo :
          LET set == setMessageField(fn.msg, key, fn.parameters[key]) IN
          fn' = [fn EXCEPT !.op = IF abort /\ set.err THEN "aborted" ELSE "loop",
                           !.todo = @ \ {key},
                           !.msg = set.msg,
                           !.failed = IF set.err THEN @ \cup {key} ELSE @]
    /\ UNCHANGED srvVars

\* CallMethod giving up at the first parameter it cannot set.
SetParameterOrAbort == SetParameterBody(TRUE)

SetParameter == SetParameterBody(FALSE)

\* stub.InvokeRpc(ctx, methodDesc, requestMsg)
InvokeRpc ==
    /\ fn.op = "loop" /\ fn.todo = {}
    /\ fn' = [fn EXCEPT !.op = "invoked"]
    /\ UNCHANGED srvVars

NextParams == SetParameter \/ InvokeRpc

SpecParams == InitParams /\ [][NextParams]_vars

\* The loop of discoverService on its own: one pass over one listing.
\* The names a backend may list.
ListedNames ==
    { HealthFullName, ServerInfoFullName,
      FQ("inventory", "v1", "Server"), FQ("inventory_v2", "v1", "Server"),
      FQ("inventory", "v2", "Server"), FQ("identity", "v1", "User"),
      Join(<< "spaceone", "api", "inventory", "v1" >>),
      Join(<< "other", "api", "inventory", "v1", "Server" >>),
      Join(<< "spaceone", "rpc", "inventory", "v1", "Server" >>),
      Join(<< "inventory" >>), FQ("inventory", "v1", "Health") }

\* The listings: up to MaxListed names, in the order the registry gives them.
Listings == UNION { [1 .. n -> ListedNames] : n \in 0 .. MaxListed }

\* The positions of the listing whose group the loop calls ResolveService on.
MatchingIn(services, serviceName) ==
    { i \in DOMAIN services : extractResourceName(services[i], serviceName) # "" }

InitDiscover ==
    /\ ServerInit
    /\ \E sn \in {"inventory", "identity"}, l \in Listings :
          \E f \in SUBSET MatchingIn(l, sn) :
              fn = [ op |-> "input", serviceName |-> sn, services |-> l, failed |-> f,
                     err |-> FALSE, Resources |-> << >> ]

\* The loop over the listing, maps.Copy and the return; the groups at the
\* positions in fn.failed are those whose ResolveService fails.
\* abort: whether a group that does not resolve ends the pass with its error.
DiscoverLoopBody(abort) ==
    /\ fn.op = "input"
    /\ fn' = IF abort /\ fn.failed # {}
             THEN [fn EXCEPT !.op = "done", !.err = TRUE]
             ELSE [fn EXCEPT !.op = "done",
                             !.Resources = BuildResourceMap(fn.services, fn.serviceName,
                                                            fn.failed, 1, << >>)]
    /\ UNCHANGED srvVars

\* discoverService giving up at the first group that does not resolve.
DiscoverLoopAbort == DiscoverLoopBody(TRUE)

DiscoverLoop == DiscoverLoopBody(FALSE)

NextDiscover == DiscoverLoop

SpecDiscover == InitDiscover /\ [][NextDiscover]_vars

\* CallMethod on a reserved resource, on its own: the taxonomy of the
\* listing, the checks against it, and the resolution of the literal name.
ReservedVerbs == {"Check", "get_version", "create", "list"}

InitReserved ==
    /\ ServerInit
    /\ fn \in { [ op |-> "input", serviceName |-> "inventory", services |-> l,
                   resourceName |-> r, verb |-> v, full |-> << >>,
                   outcome |-> "" ] :
                  l \in Listings, r \in {"Health", "ServerInfo"}, v \in ReservedVerbs }

\* The taxonomy GetServiceInfo returns for the listing.
TaxonomyOf(services, serviceName) ==
    BuildResourceMap(services, serviceName, {}, 1, << >>)

\* CallMethod from its entry to the RPC, for resourceName Health or ServerInfo.
CallMethodReservedResource ==
    /\ fn.op = "input"
    /\ LET Resources == TaxonomyOf(fn.services, fn.serviceName)
           full      == ReservedName(fn.resourceName)
           outcome   ==
               IF fn.resourceName \notin DOMAIN Resources
               THEN "ServiceDescriptorFailed: resource not found"
               ELSE IF fn.verb \notin Range(Resources[fn.resourceName].Verbs)
               THEN "ServiceDescriptorFailed: verb not found"
               ELSE IF full \notin Range(fn.services)
               THEN "ServiceDescriptorFailed: failed to resolve service"
               ELSE IF fn.verb \notin Range(GroupMethods(full))
               THEN "MethodNotFound"
               ELSE "invoked"
       IN fn' = [fn EXCEPT !.op = "done", !.full = full, !.outcome = outcome]
    /\ UNCHANGED srvVars

NextReserved == CallMethodReservedResource

SpecReserved == InitReserved /\ [][NextReserved]_vars

\* The address getClient hands to grpc.NewClient, on its own. An endpoint is
\* a sequence of tokens: scheme, "://", host, ":", port, "/", version.
TrimPrefix(str, prefix) ==
    IF Len(str) >= Len(prefix) /\ SubSeq(str, 1, Len(prefix)) = prefix
    THEN SubSeq(str, Len(prefix) + 1, Len(str))
    ELSE str

TrimSuffix(str, suffix) ==
    IF Len(str) >= Len(suffix) /\ SubSeq(str, Len(str) - Len(suffix) + 1, Len(str)) = suffix
    THEN SubSeq(str, 1, Len(str) - Len(suffix))
    ELSE str

\* address := TrimSuffix(TrimPrefix(endpoint, "grpc+ssl://"), "/v1")
AddressOf(endpoint) ==
    TrimSuffix(TrimPrefix(endpoint, << "grpc+ssl", "://" >>), << "/", "v1" >>)

Schemes  == { << >>, << "grpc+ssl", "://" >>, << "grpc", "://" >>, << "https", "://" >> }
Hosts    == { "inventory.example.com", "localhost", "10.0.0.1" }
Ports    == { "443", "50051" }
Versions == { << >>, << "/", "v1" >>, << "/", "v2" >>, << "/", "v1", "/" >> }

InitAddress ==
    /\ ServerInit
    /\ fn \in { [ op |-> "input", scheme |-> sc, host |-> h, port |-> p, version |-> v,
                   endpoint |-> sc \o << h, ":", p >> \o v, address |-> << >> ] :
                  sc \in Schemes, h \in Hosts, p \in Ports, v \in Versions }

\* getClient up to the address it passes to grpc.NewClient.
GetClientAddress ==
    /\ fn.op = "input"
    /\ fn' = [fn EXCEPT !.op = "done", !.address = AddressOf(fn.endpoint)]
    /\ UNCHANGED srvVars

NextAddress == GetClientAddress

SpecAddress == InitAddress /\ [][NextAddress]_vars

\* One invocation from the handler to the RPC, step by step, with the steps
\* it went through. fault: the one call that fails in it, if any.
StepFaults == {"none", "ListServices", "GetServiceCaller", "ResolveService", "InvokeRpc"}

\* The parameter maps of the invocations followed step by step.
StepParams ==
    { ps \in ParamMaps : \A k \in DOMAIN ps : ps[k] \in { Text(<< "4" >>), Text(<< "a" >>) } }

InitSteps ==
    /\ ServerInit
    /\ fn \in { [ op |-> "validate", serviceName |-> sn, resourceName |-> r,
                   verb |-> v, fault |-> f, parameters |-> ps, todo |-> DOMAIN ps,
                   msg |-> << >>, full |-> << >>, trace |-> << >>, resp |-> NoResp ] :
                  sn \in ServiceNames, r \in {"Server", "Health", "Nope"},
                  v \in {"list", "Check", "bogus"}, f \in StepFaults, ps \in StepParams }

\* GetServiceInfo(serviceName) in this invocation: its error, or the taxonomy.
StepServiceInfo ==
    IF fn.serviceName \notin Configured \/ fn.fault = "ListServices"
    THEN [ err |-> TRUE, Resources |-> << >> ]
    ELSE [ err |-> FALSE,
           Resources |-> TaxonomyOf(Advertised(fn.serviceName), fn.serviceName) ]

StepEnd(step, response) ==
    fn' = [fn EXCEPT !.op = "done", !.trace = Append(@, step), !.resp = response]

\* Handler.validateRequest
StepValidate ==
    /\ fn.op = "validate"
    /\ LET info == StepServiceInfo IN
       IF info.err
       THEN StepEnd("validate", NotFound(NilCtx, "Service not found"))
       ELSE IF fn.resourceName \notin DOMAIN info.Resources
       THEN StepEnd("validate", NotFound(NilCtx, "Resource not found"))
       ELSE IF fn.verb \notin Range(info.Resources[fn.resourceName].Verbs)
       THEN StepEnd("validate", BadRequest(NilCtx, "Verb not supported"))
       ELSE fn' = [fn EXCEPT !.op = "resolve", !.trace = Append(@, "validate")]
    /\ UNCHANGED srvVars

\* GetServiceCaller, then CallMethod up to the method descriptor. The checks
\* of a reserved resource against the taxonomy repeat those of validateRequest.
StepResolve ==
    /\ fn.op = "resolve"
    /\ LET full == IF fn.resourceName \in {"Health", "ServerInfo"}
                   THEN ReservedName(fn.resourceName)
                   ELSE ServiceNamePattern(fn.serviceName, fn.resourceName)
       IN
       IF fn.fault = "GetServiceCaller"
       THEN StepEnd("resolve", InternalServerError(Ctx, "Failed to create service caller"))
       ELSE IF fn.fault = "ResolveService" \/ full \notin Range(Advertised(fn.serviceName))
       THEN StepEnd("resolve", ErrServiceDescriptorFailed)
       ELSE IF fn.verb \notin Range(GroupMethods(full))
       THEN StepEnd("resolve", ErrMethodNotFound)
       ELSE fn' = [fn EXCEPT !.op = "coerce", !.full = full,
                             !.trace = Append(@, "resolve")]
    /\ UNCHANGED srvVars

\* One pass of the parameter loop of CallMethod.
StepCoerce ==
    /\ fn.op = "coerce"
    /\ \E key \in fn.todo :
          fn' = [fn EXCEPT !.todo = @ \ {key},
                           !.msg = setMessageField(@, key, fn.parameters[key]).msg,
                           !.trace = Append(@, "coerce")]
    /\ UNCHANGED srvVars

\* stub.InvokeRpc and the answer of the handler.
\* early: whether the RPC may go out while parameters are still to be set.
StepInvokeBody(early) ==
    /\ fn.op = "coerce"
    /\ early \/ fn.todo = {}
    /\ StepEnd("invoke", IF fn.fault = "InvokeRpc" THEN ErrRPCCallFailed
                         ELSE Success(Ctx, {fn.full}))
    /\ UNCHANGED srvVars

\* CallMethod issuing the RPC without waiting for the parameter loop.
StepInvokeEarly == StepInvokeBody(TRUE)

StepInvoke == StepInvokeBody(FALSE)

NextSteps == StepValidate \/ StepResolve \/ StepCoerce \/ StepInvoke

SpecSteps == InitSteps /\ [][NextSteps]_vars

\* The web client: the selections of App, the resource list it displays
\* (named by the service it was fetched for, "" for the empty list), and the
\* fetches of fetchResources that have not completed yet.
ClientServices == {"inventory", "identity"}

\* The resources the backend answers for a service, and their verbs.
ClientResources(service) ==
    IF service = "inventory" THEN {"Server", "Health"}
    ELSE IF service = "identity" THEN {"User"}
    ELSE {}

ClientVerbs(resource) == IF resource = "Health" THEN {"Check"} ELSE {"list", "get"}

InitClient ==
    /\ ServerInit
    /\ fn = [ op |-> "client", selectedService |-> "", selectedResource |-> "",
              selectedVerb |-> "", resources |-> "", inflight |-> {}, started |-> 0 ]

\* canExecute
canExecute(st) ==
    st.selectedService # "" /\ st.selectedResource # "" /\ st.selectedVerb # ""

\* onServiceChange, and the effect on selectedService: a fetch is started for
\* a service, the list and the selections are emptied for none.
\* cancel: whether the fetches still pending are abandoned.
SelectServiceBody(cancel) ==
    /\ fn.op = "client"
    /\ \E service \in ClientServices \cup {""} :
          /\ service # fn.selectedService
          /\ IF service # ""
             THEN /\ fn.started < MaxFetches
                  /\ fn' = [fn EXCEPT !.selectedService = service,
                                      !.started = @ + 1,
                                      !.inflight = (IF cancel THEN {} ELSE @)
                                          \cup {[ id |-> fn.started + 1, service |-> service ]}]
             ELSE fn' = [fn EXCEPT !.selectedService = "", !.selectedResource = "",
                                   !.selectedVerb = "", !.resources = "",
                                   !.inflight = IF cancel THEN {} ELSE @]
    /\ UNCHANGED srvVars

\* The effect ignoring the answers of the fetches of earlier selections.
SelectServiceCancelling == SelectServiceBody(TRUE)

SelectService == SelectServiceBody(FALSE)

\* A fetch completes: loadResources goes on after its await.
ResourcesArrive ==
    /\ fn.op = "client"
    /\ \E fetch \in fn.inflight :
          fn' = [fn EXCEPT !.inflight = @ \ {fetch},
                           !.resources = fetch.service,
                           !.selectedResource = "",
                           !.selectedVerb = ""]
    /\ UNCHANGED srvVars

\* onResourceChange, and the effect on selectedResource.
SelectResource ==
    /\ fn.op = "client"
    /\ fn.selectedService # ""
    /\ \E resource \in ClientResources(fn.resources) :
          /\ resource # fn.selectedResource
          /\ fn' = [fn EXCEPT !.selectedResource = resource, !.selectedVerb = ""]
    /\ UNCHANGED srvVars

\* onVerbChange: one of availableVerbs.
SelectVerb ==
    /\ fn.op = "client"
    /\ fn.selectedResource \in ClientResources(fn.resources)
    /\ \E verb \in ClientVerbs(fn.selectedResource) :
          /\ verb # fn.selectedVerb
          /\ fn' = [fn EXCEPT !.selectedVerb = verb]
    /\ UNCHANGED srvVars

NextClient == SelectService \/ ResourcesArrive \/ SelectResource \/ SelectVerb

SpecClient == InitClient /\ [][NextClient]_vars

\* The blocking calls of one invocation, with the seconds each has been
\* waited for. The schema-registry client is made with context.Background();
\* the RPC gets a context that expires DefaultTimeout seconds after its start.
HasDeadlineNone(op) == FALSE

\* Whether the call is made under a context with a deadline.
HasDeadline(op) == op = "InvokeRpc"

\* The ResolveService calls of one discovery pass of the service.
WaitGroups == ResolveCalls(Advertised("inventory"), "inventory", 1)

InitWait ==
    /\ ServerInit
    /\ fn \in { [ op |-> IF hit THEN "CallResolve" ELSE "ListServices",
                   res |-> r, i |-> 1, elapsed |-> 0, skipped |-> {},
                   resp |-> NoResp ] :
                  hit \in BOOLEAN, r \in {"Server", "Health"} }

\* The call returns to the request, which goes on to its next call.
Returned(op, i, ok) ==
    CASE op = "ListServices" ->
            IF ~ok THEN [ op |-> "done", resp |-> NotFound(NilCtx, "Service not found") ]
            ELSE IF WaitGroups = << >> THEN [ op |-> "CallResolve", resp |-> NoResp ]
            ELSE [ op |-> "DiscoverResolve", resp |-> NoResp ]
      [] op = "DiscoverResolve" ->
            IF i < Len(WaitGroups) THEN [ op |-> "DiscoverResolve", resp |-> NoResp ]
            ELSE [ op |-> "CallResolve", resp |-> NoResp ]
      [] op = "CallResolve" ->
            IF ok THEN [ op |-> "InvokeRpc", resp |-> NoResp ]
            ELSE [ op |-> "done", resp |-> ErrServiceDescriptorFailed ]
      [] op = "InvokeRpc" ->
            IF ok THEN [ op |-> "done", resp |-> Success(Ctx, "response") ]
            ELSE [ op |-> "done", resp |-> ErrRPCCallFailed ]

\* The backend answers the pending call, with a result or an error, before
\* the deadline of the call if it has one.
BackendAnswers ==
    /\ fn.op # "done"
    /\ HasDeadline(fn.op) => fn.elapsed < DefaultTimeout
    /\ \E ok \in BOOLEAN :
          LET next == Returned(fn.op, fn.i, ok) IN
          fn' = [fn EXCEPT !.op = next.op,
                           !.resp = next.resp,
                           !.i = IF fn.op = "DiscoverResolve" /\ next.op = fn.op
                                 THEN @ + 1 ELSE @,
                           !.skipped = IF fn.op = "DiscoverResolve" /\ ~ok
                                       THEN @ \cup {fn.i} ELSE @,
                           !.elapsed = IF next.op = "done" THEN @ ELSE 0]
    /\ UNCHANGED srvVars

\* A second passes while the call is pending.
Tick ==
    /\ fn.op # "done"
    /\ fn.elapsed < (IF HasDeadline(fn.op) THEN DefaultTimeout ELSE MaxWait)
    /\ fn' = [fn EXCEPT !.elapsed = @ + 1]
    /\ UNCHANGED srvVars

\* The context of the call expires: InvokeRpc returns its error.
DeadlineExceeded ==
    /\ fn.op # "done"
    /\ HasDeadline(fn.op) /\ fn.elapsed = DefaultTimeout
    /\ fn' = [fn EXCEPT !.op = "done", !.resp = ErrRPCCallFailed]
    /\ UNCHANGED srvVars

NextWait == BackendAnswers \/ Tick \/ DeadlineExceeded

\* Time passes and an expired context is acted upon; no backend has to answer.
SpecWait ==
    InitWait /\ [][NextWait]_vars /\ WF_vars(Tick) /\ WF_vars(DeadlineExceeded)

\* ------------------------------------------------------------------ claims
Calls == { p \in Procs : gsi[p].svc # "" }

\* C1: GetServiceInfo answers from the cache exactly when an entry of the
\* service exists and its age is strictly below the TTL; a call answered from
\* the cache returns the cached entry and makes no registry query; a call
\* that is not makes at most one registry query, and exactly one when it
\* returns a ServiceInfo, which is then a newly built one. No returned entry
\* is as old as the TTL.
C1_CacheHitIffFresh ==
    \A p \in Calls :
        LET g == gsi[p] IN
        /\ g.hit <=> (g.existed /\ g.age < CacheTTL)
        /\ g.done /\ g.hit => g.result = g.entry /\ g.queries = 0
        /\ ~g.hit => g.queries <= 1
        /\ g.done /\ ~g.hit /\ g.result # 0 => g.queries = 1 /\ g.result # g.entry

\* A call found the entry exactly as old as the TTL and rediscovered once.
C1_StaleRediscovered ==
    \E p \in Calls :
        LET g == gsi[p] IN
        g.done /\ g.existed /\ g.age = CacheTTL /\ ~g.hit /\ g.queries = 1 /\ g.result # 0

\* C2: the first GetServiceInfo of a service that begins after ClearCache
\* returned is never answered from the cache.
C2_FreshQueryAfterClear ==
    \A p \in Calls : gsi[p].afterClear => ~gsi[p].hit

\* The connections created on registry R for name n.
ConnsOf(R, n) == { i \in DOMAIN conns : conns[i].reg = R /\ conns[i].name = n }

\* C3: once a call on a registry succeeded for a name, the registry keeps the
\* handle and the reflection client that call returned, so that every later
\* call returns them: the entry is never replaced.
C3_HandleNeverReplaced ==
    \A R \in Regs, n \in ServiceNames :
        succ[R][n] # 0 => clients[R][n] = succ[R][n]

\* C4: the discovery path and the invocation path together hold at most one
\* connection per backend name: no name has a connection on each of them.
C4_OneConnectionPerBackend ==
    \A n \in ServiceNames : ConnsOf("sd", n) = {} \/ ConnsOf("cm", n) = {}

\* C5: concurrent first uses of a name on one registry are serialized: one
\* connection at most is created for the name on that registry.
C5_FirstUseSerialized ==
    \A R \in Regs, n \in ServiceNames : Cardinality(ConnsOf(R, n)) <= 1

\* The ServiceInfo objects a reader can reach: those in the cache and those
\* a GetServiceInfo call returned.
Published ==
    ({ cache[s] : s \in ServiceNames } \cup { gsi[p].result : p \in Procs }) \ {0}

\* The ServiceInfo objects discoverService is still filling.
Building == { loc[p].info : p \in { q \in Procs : pc[q] = "dsLoop" } }

\* C6: a published ServiceInfo is not one discoverService is still building,
\* and no step changes a published ServiceInfo.
C6_PublishedImmutable ==
    [][ \A id \in Published : id \notin Building /\ heap'[id] = heap[id] ]_vars

\* A reader was answered from a published ServiceInfo while a discovery pass
\* of the same service is filling another object.
C6_ReaderDuringRebuild ==
    \E p \in Procs, q \in Procs :
        /\ pc[p] = "dsLoop" /\ loc[p].info \notin Published
        /\ cache[loc[p].svc] \in Published
        /\ resp[q].kind = "success" /\ gsi[q].result = cache[loc[p].svc]

\* C7: an invocation stopped by the first check is answered "service not
\* found", by the second "resource not found", by the third "verb not
\* supported", each as its own error kind.
C7_DistinctValidationErrors ==
    \A p \in Procs :
        /\ loc[p].vfail = "service" =>
              resp[p] = [ kind |-> "error", code |-> StatusNotFound,
                          message |-> "Service not found", data |-> {} ]
        /\ loc[p].vfail = "resource" =>
              resp[p] = [ kind |-> "error", code |-> StatusNotFound,
                          message |-> "Resource not found", data |-> {} ]
        /\ loc[p].vfail = "verb" =>
              resp[p] = [ kind |-> "error", code |-> StatusBadRequest,
                          message |-> "Verb not supported", data |-> {} ]

\* C8: the operation-group CallMethod resolves for a resource outside the
\* reserved ones is the ServiceName stored in the ResourceInfo of the
\* taxonomy the request was validated against.
C8_ResolvesStoredName ==
    \A p \in Procs :
        pc[p] \in {"cmResolve", "cmInvoke"} /\ loc[p].res \notin {"Health", "ServerInfo"}
            => loc[p].full = heap[loc[p].info].Resources[loc[p].res].ServiceName

\* The alias pairs of service names.
AliasPairs == { {"inventory", "inventory_v2"}, {"cost_analysis", "cost_analysis_v2"} }

Alias(a, b) == a # b /\ {a, b} \in AliasPairs

\* The name has the five segments of the convention, under spaceone.api.
Conventional(parts) == Len(parts) >= 5 /\ parts[1] = "spaceone" /\ parts[2] = "api"

\* C9 as stated: for a conventional name the result is the fifth segment
\* when the service segment is the requested name or an alias of it, and
\* empty when it is neither; the alias relation is symmetric.
C9_AsStated ==
    fn.op = "done" =>
        LET parts == Split(fn.fullName) IN
        Conventional(parts) =>
            /\ (parts[3] = fn.serviceName \/ Alias(parts[3], fn.serviceName))
                  => fn.result = parts[5]
            /\ ~(parts[3] = fn.serviceName \/ Alias(parts[3], fn.serviceName))
                  => fn.result = ""
            /\ isCompatibleService(parts[3], fn.serviceName)
                  <=> isCompatibleService(fn.serviceName, parts[3])

\* C9: for a conventional name the result is the fifth segment when the
\* service segment is the requested name or an alias of it, and empty when
\* it is neither and the name is not the reserved
\* spaceone.api.core.v1.ServerInfo; the alias relation is symmetric, and is
\* exactly the two pairs.
C9_ExtractResourceName ==
    fn.op = "done" =>
        LET parts == Split(fn.fullName) IN
        Conventional(parts) =>
            /\ (parts[3] = fn.serviceName \/ Alias(parts[3], fn.serviceName))
                  => fn.result = parts[5]
            /\ ~(parts[3] = fn.serviceName \/ Alias(parts[3], fn.serviceName))
               /\ fn.fullName # ServerInfoFullName
                  => fn.result = ""
            /\ isCompatibleService(parts[3], fn.serviceName)
                  <=> isCompatibleService(fn.serviceName, parts[3])
            /\ isCompatibleService(parts[3], fn.serviceName)
                  <=> Alias(parts[3], fn.serviceName)

\* The resource of an aliased service was extracted.
C9_AliasExtracted ==
    /\ fn.op = "done"
    /\ fn.fullName = FQ("inventory_v2", "v1", "Server")
    /\ fn.serviceName = "inventory"
    /\ fn.result = "Server"

\* The ServiceInfo objects whose discovery pass has ended.
Built == { id \in DOMAIN heap : id \notin Building }

\* C10: whatever the requested service name, grpc.health.v1.Health is
\* classified as "Health" and spaceone.api.core.v1.ServerInfo as
\* "ServerInfo"; and every built taxonomy of a service whose backend lists
\* such a group, and resolved it, holds the reserved resource, under that
\* group's name.
C10_ReservedResources ==
    /\ \A s \in RequestedNames \cup ServiceNames :
          /\ extractResourceName(HealthFullName, s) = "Health"
          /\ extractResourceName(ServerInfoFullName, s) = "ServerInfo"
    /\ \A id \in Built :
          LET info == heap[id]
              listed == Range(Advertised(info.Name)) \ failLog[id]
          IN /\ HealthFullName \in listed =>
                   /\ "Health" \in DOMAIN info.Resources
                   /\ info.Resources["Health"].ServiceName = HealthFullName
             /\ ServerInfoFullName \in listed =>
                   /\ "ServerInfo" \in DOMAIN info.Resources
                   /\ info.Resources["ServerInfo"].ServiceName = ServerInfoFullName

\* A taxonomy holding both reserved resources is in the cache.
C10_BothReservedCached ==
    \E s \in ServiceNames :
        /\ cache[s] # 0
        /\ {"Health", "ServerInfo"} \subseteq DOMAIN heap[cache[s]].Resources

\* C15: every invocation ends with a success payload or a structured error;
\* none ends in a panic.
C15_StructuredOutcome ==
    \A p \in Procs :
        loc[p].op = "invoke" /\ pc[p] = "idle" => resp[p].kind \in {"success", "error"}

\* The requests that ended on an unconfigured service name, and those that
\* ended on a backend that could not be connected to or queried.
EndedUnconfigured ==
    { p \in Procs : pc[p] = "idle" /\ loc[p].cause = "endpoint not found" }
EndedUnreachable ==
    { p \in Procs : pc[p] = "idle" /\
                    loc[p].cause \in {"failed to connect", "failed to list services"} }

\* C16: a request that failed on an unreachable backend and one that failed
\* on an unconfigured name are never answered with the same code and message.
C16_DistinctCauses ==
    \A p \in EndedUnconfigured, q \in EndedUnreachable :
        << resp[p].code, resp[p].message >> # << resp[q].code, resp[q].message >>

\* p's getClient call fails in this step.
GetClientFails(p) ==
    /\ pc[p] \in {"gcLookup", "gcCreate"}
    /\ loc[p].cause = ""
    /\ loc'[p].cause \in {"endpoint not found", "failed to connect"}

\* C17: getClient fails with "endpoint not found" exactly for a name without
\* a configured endpoint and with "failed to connect" when the transport
\* cannot be created; the failing call adds nothing to the connection map or
\* the reflection-client map, and a name without an endpoint never has an entry.
C17_FailedLeavesNoEntry ==
    /\ [](\A R \in Regs, n \in ServiceNames \ Configured :
             clients[R][n] = 0 /\ refClients[R][n] = 0)
    /\ [][ \A p \in Procs : GetClientFails(p) =>
              /\ clients' = clients /\ refClients' = refClients
              /\ loc'[p].cause = "endpoint not found" <=> loc[p].svc \notin Configured
              /\ loc'[p].cause = "failed to connect" <=> pc[p] = "gcCreate" ]_vars

\* The invocation registry failed to connect for a request, and a later
\* call created the connection.
C17_RetriedLater ==
    \E p \in Procs :
        /\ pc[p] = "idle" /\ loc[p].cause = "failed to connect"
        /\ resp[p].message = "Failed to create service caller"
        /\ clients["cm"][loc[p].svc] # 0

\* No ServiceInfo's pass called ResolveService twice on a group.
ResolvedOnce ==
    \A id \in DOMAIN resolved :
        \A i \in DOMAIN resolved[id], j \in DOMAIN resolved[id] :
            resolved[id][i] = resolved[id][j] => i = j

\* p's request ends in this step with an error.
EndsWithError(p) ==
    pc[p] # "idle" /\ pc'[p] = "idle" /\ resp'[p].kind \in {"error", "panic"}

\* C18 as stated: no GetServiceInfo call makes a second ListServices query or
\* a second ResolveService on a group, no request issues a second RPC, and
\* every failure of a connection, a registry query or an RPC ends the request
\* in the step it happens.
C18_AsStated ==
    /\ [](/\ \A p \in Procs : gsi[p].queries <= 1 /\ loc[p].rpcs <= 1
          /\ ResolvedOnce)
    /\ [][ faults' > faults => \E p \in Procs : EndsWithError(p) ]_vars

\* C18: no GetServiceInfo call makes a second ListServices query or a second
\* ResolveService on a group, no request issues a second RPC, and every
\* failure of a connection, of ListServices, of the invoker's ResolveService
\* or of an RPC ends the request in the step it happens; a ResolveService
\* that fails inside the discovery loop only leaves its group out.
C18_NoRetry ==
    /\ [](/\ \A p \in Procs : gsi[p].queries <= 1 /\ loc[p].rpcs <= 1
          /\ ResolvedOnce)
    /\ [][ faults' > faults =>
              \E p \in Procs : EndsWithError(p) \/ pc[p] = "dsLoop" ]_vars

\* A request whose single RPC failed ended with ErrRPCCallFailed.
C18_RpcFailedOnce ==
    \E p \in Procs :
        pc[p] = "idle" /\ resp[p] = ErrRPCCallFailed /\ loc[p].rpcs = 1

\* The goroutines between the lookup and the assignment of GetServiceInfo.
Discovering ==
    { p \in Procs : /\ pc[p] \in {"gcLookup", "gcCreate", "gcStoreConn", "gcStoreRef",
                                  "dsList", "dsLoop", "gsiWrite"}
                    /\ loc[p].reg = "sd" }

\* C19: the cache lock is free whenever a goroutine is inside a discovery
\* pass, so that a goroutine at the lookup of GetServiceInfo can always take
\* its step; and the assignment of GetServiceInfo leaves in the cache the
\* ServiceInfo of the goroutine that made it, completely built.
C19_LockNotHeldInDiscovery ==
    /\ [](Discovering # {} => mu = 0)
    /\ [](\A p \in Procs : pc[p] = "gsiRead" /\ ~crashed => mu = 0)
    /\ [][ \A p \in Procs : pc[p] = "gsiWrite" /\ pc'[p] # "gsiWrite" =>
              /\ cache'[loc[p].svc] = loc[p].info
              /\ \A q \in Procs : ~(pc'[q] = "dsLoop" /\ loc'[q].info = loc[p].info) ]_vars

\* Two callers found the same entry stale, each ran a discovery of its own,
\* and the cache holds the ServiceInfo one of them built.
C19_BothRediscovered ==
    \E p \in Procs, q \in Procs :
        /\ p # q /\ gsi[p].done /\ gsi[q].done
        /\ gsi[p].entry # 0 /\ gsi[p].entry = gsi[q].entry
        /\ ~gsi[p].hit /\ ~gsi[q].hit
        /\ gsi[p].result # 0 /\ gsi[q].result # 0 /\ gsi[p].result # gsi[q].result
        /\ cache[gsi[p].svc] \in {gsi[p].result, gsi[q].result}

\* C11: every input field is in exactly one of RequiredParams and
\* OptionalParams: in OptionalParams when it is repeated or its declaration
\* carries a default, in RequiredParams otherwise.
C11_RequiredOptionalPartition ==
    fn.op = "done" =>
        LET required == Range(fn.info.RequiredParams)
            optional == Range(fn.info.OptionalParams)
        IN /\ required \cup optional = { f.name : f \in Range(fn.fields) }
           /\ required \cap optional = {}
           /\ \A f \in Range(fn.fields) :
                 IF f.repeated \/ f.declared
                 THEN f.name \in optional
                 ELSE f.name \in required

\* The text is a decimal integer: an optional sign and digits, nothing else.
IsNumber(s) ==
    LET first == IF Len(s) > 0 /\ s[1] \in {"-", "+"} THEN 2 ELSE 1 IN
    /\ Len(s) >= first
    /\ \A i \in first .. Len(s) : s[i] \in Digits

\* The parameters of an integer field whose text is no number.
Unparseable ==
    { k \in DOMAIN fn.parameters :
        /\ k \in DOMAIN InputFields /\ InputFields[k] \in {"int32", "int64"}
        /\ fn.parameters[k].type = "string" /\ ~IsNumber(fn.parameters[k].text) }

\* C12: an integer field given a text that is no number is left unset, every
\* other parameter is applied as if it were alone, and the call reaches the RPC.
C12_UnparseableDropped ==
    /\ fn.op \in {"loop", "invoked"}
    /\ \A k \in Unparseable :
          /\ k \notin DOMAIN fn.msg
          /\ k \notin fn.todo => k \in fn.failed

\* The parameters whose assignment succeeds.
Assignable ==
    { k \in DOMAIN fn.parameters : ~setMessageField(<< >>, k, fn.parameters[k]).err }

C14_RpcBounded ==
    /\ [](fn.op = "InvokeRpc" => fn.elapsed <= DefaultTimeout)
    /\ (fn.op = "InvokeRpc" /\ fn.elapsed = DefaultTimeout)
          ~> (fn.op = "done" /\ fn.resp = ErrRPCCallFailed)

\* The RPC ended in RPCCallFailed at the expiry of its timeout.
C14_TimedOut ==
    /\ fn.op = "done"
    /\ fn.elapsed = DefaultTimeout
    /\ fn.resp = ErrRPCCallFailed

\* The blocking calls of a request other than connection establishment.
BlockingSteps == {"ListServices", "DiscoverResolve", "CallResolve", "InvokeRpc"}

\* C20: every blocking call that has been pending for the timeout returns.
C20_EveryStepBounded ==
    \A step \in BlockingSteps : \A n \in 1 .. Len(WaitGroups) :
        (fn.op = step /\ fn.i = n /\ fn.elapsed >= DefaultTimeout)
            ~> ~(fn.op = step /\ fn.i = n)

\* The positions of the listing whose group matched and resolved.
ResolvedIn == MatchingIn(fn.services, fn.serviceName) \ fn.failed

\* C21: a pass returns no error whichever matching groups fail to resolve,
\* and its taxonomy holds exactly the resources of the matching groups that
\* resolved, each described by one of those groups.
C21_PartialDiscovery ==
    fn.op = "done" =>
        /\ ~fn.err
        /\ DOMAIN fn.Resources =
              { extractResourceName(fn.services[i], fn.serviceName) : i \in ResolvedIn }
        /\ \A r \in DOMAIN fn.Resources :
              \E i \in ResolvedIn :
                  /\ fn.Resources[r].ServiceName = fn.services[i]
                  /\ extractResourceName(fn.services[i], fn.serviceName) = r

\* A pass in which one group failed to resolve and another made it into the
\* taxonomy.
C21_OneSkippedOneKept ==
    /\ fn.op = "done"
    /\ fn.failed # {}
    /\ DOMAIN fn.Resources # {}

\* The name is neither reserved nor a name of the convention for the
\* service: it has fewer than five segments, or other leading segments, or a
\* service segment that is neither the requested service nor its alias.
Unconventional(name, serviceName) ==
    LET parts == Split(name) IN
    /\ name \notin { HealthFullName, ServerInfoFullName }
    /\ \/ Len(parts) < 5
       \/ parts[1] # "spaceone" \/ parts[2] # "api"
       \/ ~(parts[3] = serviceName \/ Alias(parts[3], serviceName))

\* C22: every listed group with an unconventional name gets no resource
\* name, describes no resource of the taxonomy, and the pass returns no error.
C22_UnconventionalDiscarded ==
    \A i \in DOMAIN fn.services :
        Unconventional(fn.services[i], fn.serviceName) =>
            /\ extractResourceName(fn.services[i], fn.serviceName) = ""
            /\ fn.op = "done" =>
                  /\ ~fn.err
                  /\ \A r \in DOMAIN fn.Resources :
                        fn.Resources[r].ServiceName # fn.services[i]

\* A pass over a listing with a name of four segments and a conventional one
\* ended with the conventional one alone in the taxonomy.
C22_ShortNameDropped ==
    /\ fn.op = "done"
    /\ \E i \in DOMAIN fn.services : Len(Split(fn.services[i])) = 4
    /\ Cardinality(DOMAIN fn.Resources) = 1
    /\ fn.failed = {}

\* The positions among S of the groups the pass names r.
NamedIn(S, r) ==
    { i \in S : extractResourceName(fn.services[i], fn.serviceName) = r }

Last(S) == CHOOSE i \in S : \A j \in S : j <= i

\* The ResourceInfo comes whole from the group: name, verbs and methods.
DescribesGroup(info, service) ==
    /\ info.ServiceName = service
    /\ info.Verbs = GroupMethods(service)
    /\ DOMAIN info.Methods = Range(info.Verbs)
    /\ \A v \in DOMAIN info.Methods : info.Methods[v].Name = v

\* C29 as stated: every resource of the taxonomy is described by the last
\* listed group of that resource name.
C29_AsStated ==
    fn.op = "done" =>
        \A r \in DOMAIN fn.Resources :
            DescribesGroup(fn.Resources[r],
                           fn.services[Last(NamedIn(MatchingIn(fn.services, fn.serviceName), r))])

\* C29: every resource of the taxonomy is described, in ServiceName, Verbs
\* and Methods alike, by one group: the last listed group of that resource
\* name whose schema resolved.
C29_SingleGroup ==
    fn.op = "done" =>
        \A r \in DOMAIN fn.Resources :
            DescribesGroup(fn.Resources[r], fn.services[Last(NamedIn(ResolvedIn, r))])

\* Two groups with different operations were resolved under one resource name.
C29_TwoGroupsOneResource ==
    /\ fn.op = "done"
    /\ \E i, j \in ResolvedIn :
          /\ i < j
          /\ extractResourceName(fn.services[i], fn.serviceName)
                = extractResourceName(fn.services[j], fn.serviceName)
          /\ GroupMethods(fn.services[i]) # GroupMethods(fn.services[j])

\* C23: the literal name CallMethod resolves for a reserved resource is the
\* group extractResourceName names so, the taxonomy's entry of the resource
\* describes that group, and every verb the entry lists is found in the group
\* and invoked there.
C23_ReservedAgree ==
    fn.op = "done" =>
        LET Resources == TaxonomyOf(fn.services, fn.serviceName) IN
        /\ extractResourceName(fn.full, fn.serviceName) = fn.resourceName
        /\ fn.resourceName \in DOMAIN Resources =>
              /\ Resources[fn.resourceName].ServiceName = fn.full
              /\ fn.verb \in Range(Resources[fn.resourceName].Verbs) =>
                    /\ fn.outcome = "invoked"
                    /\ fn.verb \in Range(GroupMethods(fn.full))

\* The value of the text of a decimal integer.
NumberOf(s) == Sscanf(s).result

\* The parameters of an integer field that are a native integer, a decimal
\* number or a string of digits, and the integer each stands for.
IntegerInputs ==
    { k \in DOMAIN fn.parameters :
        /\ k \in DOMAIN InputFields /\ InputFields[k] \in {"int32", "int64"}
        /\ \/ fn.parameters[k].type \in {"int", "int32", "int64", "float64"}
           \/ fn.parameters[k].type = "string" /\ IsNumber(fn.parameters[k].text) }

IntegerOf(value) ==
    CASE value.type = "float64" -> Truncate(value.tenths)
      [] value.type = "string"  -> NumberOf(value.text)
      [] OTHER                  -> value.num

\* C24: when the RPC is invoked, every integer field given a native integer,
\* a decimal number or a string of digits is set to that integer.
C24_IntegerCoercion ==
    fn.op = "invoked" =>
        \A k \in IntegerInputs :
            /\ k \in DOMAIN fn.msg
            /\ fn.msg[k].num = IntegerOf(fn.parameters[k])

\* C26: an endpoint made of a scheme, host:port and a version segment, and
\* one that is host:port alone, both give the address host:port.
C26_BareAddress ==
    fn.op = "done" =>
        /\ (fn.scheme # << >> /\ Len(fn.version) = 2)
              => fn.address = << fn.host, ":", fn.port >>
        /\ (fn.scheme = << >> /\ fn.version = << >>)
              => fn.address = fn.endpoint

\* The parameters given for a boolean field.
BooleanInputs ==
    { k \in DOMAIN fn.parameters : k \in DOMAIN InputFields /\ InputFields[k] = "bool" }

\* The boolean the input stands for: itself, true for the texts "true" and
\* "1", false for everything else.
BooleanOf(value) ==
    CASE value.type = "bool"   -> value.b
      [] value.type = "string" -> value.text \in { TrueText, << "1" >> }
      [] OTHER                 -> FALSE

\* What the request carries in a boolean field: false when it is not set.
BoolField(msg, k) == IF k \in DOMAIN msg THEN msg[k].b ELSE FALSE

\* C25 as stated: a boolean field is set, to the boolean its input stands
\* for, whatever the input.
C25_AsStated ==
    fn.op = "invoked" =>
        \A k \in BooleanInputs :
            k \in DOMAIN fn.msg /\ fn.msg[k].b = BooleanOf(fn.parameters[k])

\* C25: a boolean field given a boolean or a text is set to the boolean the
\* input stands for; given anything else it is left unset, and so reads false.
C25_BooleanCoercion ==
    fn.op = "invoked" =>
        \A k \in BooleanInputs :
            /\ BoolField(fn.msg, k) = BooleanOf(fn.parameters[k])
            /\ k \in DOMAIN fn.msg <=> fn.parameters[k].type \in {"bool", "string"}

\* The RPC was invoked with a boolean field set to false from the text "True".
C25_CaseSensitive ==
    /\ fn.op = "invoked"
    /\ \E k \in BooleanInputs :
          /\ fn.parameters[k] = Text(<< "T", "r", "u", "e" >>)
          /\ k \in DOMAIN fn.msg /\ fn.msg[k].b = FALSE

\* How many times the step occurs in the trace.
Times(trace, step) == Cardinality({ i \in DOMAIN trace : trace[i] = step })

StepRank(step) ==
    CASE step = "validate" -> 1 [] step = "resolve" -> 2
      [] step = "coerce"   -> 3 [] step = "invoke"  -> 4

\* The group and the verb of the invocation exist at the backend.
StepResolvable ==
    /\ fn.serviceName \in Configured
    /\ fn.full \in Range(Advertised(fn.serviceName))
    /\ fn.verb \in Range(GroupMethods(fn.full))

\* C27: the steps of an invocation occur in the order validate, resolve,
\* coerce, invoke; an RPC is issued at most once, only after validation and
\* resolution succeeded and every parameter was processed; and an invocation
\* that fails before the RPC issues none.
C27_StrictOrder ==
    /\ \A i, j \in DOMAIN fn.trace : i < j => StepRank(fn.trace[i]) <= StepRank(fn.trace[j])
    /\ Times(fn.trace, "invoke") <= 1
    /\ Times(fn.trace, "invoke") = 1 =>
          /\ Times(fn.trace, "validate") = 1 /\ Times(fn.trace, "resolve") = 1
          /\ Times(fn.trace, "coerce") = Cardinality(DOMAIN fn.parameters)
          /\ StepResolvable
          /\ fn.fault \in {"none", "InvokeRpc"}
    /\ (fn.op = "done" /\ (~StepResolvable \/ fn.fault \notin {"none", "InvokeRpc"}))
          => Times(fn.trace, "invoke") = 0

\* An invocation with two parameters went through every step to the RPC.
C27_AllStepsTaken ==
    /\ fn.op = "done"
    /\ Times(fn.trace, "coerce") = 2
    /\ Times(fn.trace, "invoke") = 1

\* The GetServiceInfo call of p returns an error in this step.
GsiFails(p) == ~gsi[p].done /\ gsi'[p].done /\ gsi'[p].result = 0

\* The GetServiceInfo call of p stores its result and returns it in this step.
GsiStores(p) ==
    /\ pc[p] = "gsiWrite" /\ pc'[p] # "gsiWrite"
    /\ gsi'[p].done /\ gsi'[p].result = loc[p].info

\* C28: a step in which a GetServiceInfo call returns an error leaves the
\* cache and the objects it holds as they were; the cache changes only when
\* a successful call stores the new object under its own service, every other
\* entry kept, or when ClearCache empties it.
C28_FailureLeavesCache ==
    [][ /\ \A p \in Procs : GsiFails(p) => cache' = cache /\ heap' = heap
        /\ cache' # cache =>
              \/ \E p \in Procs :
                    /\ GsiStores(p)
                    /\ cache' = [cache EXCEPT ![loc[p].svc] = loc[p].info]
              \/ /\ \A s \in ServiceNames : cache'[s] = 0
                 /\ \E p \in Procs : loc'[p].op = "clear" ]_vars

\* A call failed to rediscover a service whose stale entry is still cached.
C28_FailedOverStale ==
    \E p \in Procs :
        /\ gsi[p].done /\ gsi[p].result = 0
        /\ gsi[p].existed /\ ~gsi[p].hit
        /\ cache[gsi[p].svc] = gsi[p].entry

====
